---- MODULE Spec2Model ----
(***************************************************************************)
(* Model of the prover rank list fetcher (src/main.go): one run of the     *)
(* cli Action is parse start, parse end, fetch, read cluster names, build  *)
(* the sheet, save it.  The HTTP server, the label file, the clock and the *)
(* outcome of the file save are the environment.                           *)
(*                                                                         *)
(* Strings of the source that are not ASCII are written in ASCII here      *)
(* (the eleven header titles, the output file name prefix).                *)
(***************************************************************************)
EXTENDS Integers, Sequences, FiniteSets, TLC

\* ---------------------------------------------------------------- bounds
\* Longest "data" array the API answers with.
MaxProvers == 2
\* Most lines in the cluster-name file.
MaxLines == 2
\* Most invocations of the program in SpecTwice.
MaxRuns == 2
\* Last calendar day and last time of day the clock can reach.
MaxDay == 2
MaxTod == 2

\* ------------------------------------------------------ program constants
StatusOK == 200
Gpu3080Rate == 15000
Gpu4090Rate == 43000
MegaUnit == 1000000
\* Largest decimal exponent of a finite float64 (strconv.ParseFloat reports
\* ErrRange and returns +-Inf beyond it).
MaxFloatExp == 308
\* 10^24 / 43000 > 2^63: a nonzero float64 of a larger decimal exponent,
\* divided by either rate, is outside int (64 bits).
MaxIntExp == 23

\* ------------------------------------------------------------ JSON values
\* A JSON scalar as the decoder sees it.  t is the JSON type ("absent": the
\* object has no such key).  A string holds either text s or, when isnum, a
\* number literal; a number literal is sign * mant * 10^exp.
JV(t, s, isnum, sign, mant, exp) ==
    [t |-> t, s |-> s, isnum |-> isnum, sign |-> sign, mant |-> mant, exp |-> exp]
JAbsent == JV("absent", "", FALSE, 1, 0, 0)
JNull == JV("null", "", FALSE, 1, 0, 0)
JText(s) == JV("string", s, FALSE, 1, 0, 0)
JNum(sign, mant, exp) == JV("number", "", FALSE, sign, mant, exp)
JNumText(sign, mant, exp) == JV("string", "", TRUE, sign, mant, exp)

\* An element of the "data" array: a JSON object with the seven keys of
\* Prover (any of them absent), or a JSON null, or a JSON number.
JElem(t, addr, total, totalPct, daily, dailyPct, speed, speedPct) ==
    [t |-> t, Address |-> addr,
     TotalPuzzleCredits |-> total, TotalPuzzleCreditsPercentage |-> totalPct,
     DailyPuzzleCredits |-> daily, DailyPuzzleCreditsPercentage |-> dailyPct,
     NetworkSpeed |-> speed, NetworkSpeedPercentage |-> speedPct]
JObject(addr, total, totalPct, daily, dailyPct, speed, speedPct) ==
    JElem("object", addr, total, totalPct, daily, dailyPct, speed, speedPct)
JNullElem == JElem("null", JAbsent, JAbsent, JAbsent, JAbsent, JAbsent, JAbsent, JAbsent)
JNumberElem == JElem("number", JAbsent, JAbsent, JAbsent, JAbsent, JAbsent, JAbsent, JAbsent)

\* Elements that decode into a Prover.
GoodElems ==
    { JObject(JText("addr1"), JNumText(1, 100, 0), JText("10%"), JNumText(1, 7, 0),
              JText("5%"), JNumText(1, 30000, 0), JText("1%")),
      JObject(JText("addr2"), JNum(1, 250, 0), JText("25%"), JNum(1, 9, 0),
              JText("6%"), JNum(-1, 20000, 0), JText("2%")),
      JObject(JText("addr3"), JAbsent, JAbsent, JNull, JText("0%"),
              JNum(1, 86001, 0), JAbsent),
      JObject(JText("addr1"), JNum(-1, 1, 400), JText("?"), JNum(1, 3, 0),
              JText("1%"), JNum(1, 1, 400), JText("99%")),
      JObject(JText("addr2"), JNum(1, 5, 0), JText("1%"), JAbsent,
              JAbsent, JNum(1, 3, 30), JText("50%")),
      JNullElem }

\* Elements the decoder rejects: a number field holding text that is no
\* number, a string field holding a number, an element that is a number.
BadElems ==
    { JObject(JText("addr1"), JNum(1, 1, 0), JText("1%"), JText("abc"),
              JText("1%"), JNum(1, 15000, 0), JText("1%")),
      JObject(JNum(1, 5, 0), JAbsent, JAbsent, JAbsent, JAbsent, JAbsent, JAbsent),
      JNumberElem }

Elems == GoodElems \cup BadElems

SeqsUpTo(S, n) == UNION { [1..k -> S] : k \in 0..n }

\* A response body.  shape "unreadable" is a body ioutil.ReadAll fails on,
\* "invalid" is text that is not JSON; "null", "array" and "object" are the
\* type of the top-level JSON value ("array" stands for every type a struct
\* cannot take).  data is
\* the type of the object's "data" key ("absent": no such key) and items its
\* elements when it is an array.
Body(shape, data, items) == [shape |-> shape, data |-> data, items |-> items]

Bodies(n) ==
    { Body("unreadable", "absent", <<>>),
      Body("invalid", "absent", <<>>), Body("null", "absent", <<>>),
      Body("array", "absent", <<>>), Body("object", "absent", <<>>),
      Body("object", "null", <<>>), Body("object", "string", <<>>) }
    \cup { Body("object", "array", items) : items \in SeqsUpTo(Elems, n) }

\* What client.Do gives: a transport error, or a status and a body.
Response(kind, status, body) == [kind |-> kind, status |-> status, body |-> body]
NoResponse == Response("none", 0, Body("invalid", "absent", <<>>))

Responses(n) ==
    { Response("neterr", 0, Body("invalid", "absent", <<>>)) }
    \cup { Response("http", StatusOK, b) : b \in Bodies(n) }
    \cup { Response("http", st, b) :
             st \in {201, 500},
             b \in { Body("invalid", "absent", <<>>),
                     Body("object", "array", <<>>),
                     Body("object", "array", <<JNullElem>>) } }

\* ------------------------------------------------------------ json decode
\* json.Number is a string: the zero value "" (empty), or a number literal.
Number(empty, sign, mant, exp) ==
    [empty |-> empty, sign |-> sign, mant |-> mant, exp |-> exp]
NumberZero == Number(TRUE, 1, 0, 0)

Decoded(ok, v) == [ok |-> ok, v |-> v]

\* A JSON value into a Go string field: absent and null leave the zero
\* value, a string is stored, any other type is an UnmarshalTypeError.
DecodeString(j) ==
    CASE j.t \in {"absent", "null"} -> Decoded(TRUE, "")
      [] j.t = "string" -> Decoded(TRUE, j.s)
      [] OTHER -> Decoded(FALSE, "")

\* A JSON value into a json.Number field: absent and null leave "", a
\* number keeps its literal, a string is accepted only when it holds a
\* valid number literal (encoding/json since Go 1.14).
DecodeNumber(j) ==
    CASE j.t \in {"absent", "null"} -> Decoded(TRUE, NumberZero)
      [] j.t = "number" -> Decoded(TRUE, Number(FALSE, j.sign, j.mant, j.exp))
      [] j.t = "string" /\ j.isnum -> Decoded(TRUE, Number(FALSE, j.sign, j.mant, j.exp))
      [] OTHER -> Decoded(FALSE, NumberZero)

Prover(addr, total, totalPct, daily, dailyPct, speed, speedPct) ==
    [Address |-> addr,
     TotalPuzzleCredits |-> total, TotalPuzzleCreditsPercentage |-> totalPct,
     DailyPuzzleCredits |-> daily, DailyPuzzleCreditsPercentage |-> dailyPct,
     NetworkSpeed |-> speed, NetworkSpeedPercentage |-> speedPct]
ZeroProver == Prover("", NumberZero, "", NumberZero, "", NumberZero, "")

\* One element of data into a Prover: null leaves the zero Prover, an
\* object decodes field by field, any other type is an error.
DecodeProver(e) ==
    CASE e.t = "null" -> Decoded(TRUE, ZeroProver)
      [] e.t = "object" ->
           LET a == DecodeString(e.Address)
               t == DecodeNumber(e.TotalPuzzleCredits)
               tp == DecodeString(e.TotalPuzzleCreditsPercentage)
               d == DecodeNumber(e.DailyPuzzleCredits)
               dp == DecodeString(e.DailyPuzzleCreditsPercentage)
               n == DecodeNumber(e.NetworkSpeed)
               np == DecodeString(e.NetworkSpeedPercentage)
           IN  Decoded(a.ok /\ t.ok /\ tp.ok /\ d.ok /\ dp.ok /\ n.ok /\ np.ok,
                       Prover(a.v, t.v, tp.v, d.v, dp.v, n.v, np.v))
      [] OTHER -> Decoded(FALSE, ZeroProver)

\* A faulty Unmarshal: a body without an array "data" is rejected.
UnmarshalRequireData(body) ==
    IF body.shape = "object" /\ body.data = "array"
       /\ \A i \in 1..Len(body.items) : DecodeProver(body.items[i]).ok
    THEN Decoded(TRUE, [i \in 1..Len(body.items) |-> DecodeProver(body.items[i]).v])
    ELSE Decoded(FALSE, <<>>)

\* json.Unmarshal(body, &data) with data struct{Data []Prover `json:"data"`}:
\* a JSON null and an object without "data" (or with a null "data") decode
\* without error and leave Data nil; an error returns no provers.
Unmarshal(body) ==
    CASE body.shape = "null" -> Decoded(TRUE, <<>>)
      [] body.shape = "object" /\ body.data \in {"absent", "null"} -> Decoded(TRUE, <<>>)
      [] body.shape = "object" /\ body.data = "array" ->
           LET ds == [i \in 1..Len(body.items) |-> DecodeProver(body.items[i])]
           IN  IF \A i \in 1..Len(ds) : ds[i].ok
               THEN Decoded(TRUE, [i \in 1..Len(ds) |-> ds[i].v])
               ELSE Decoded(FALSE, <<>>)
      [] OTHER -> Decoded(FALSE, <<>>)

\* ------------------------------------------------------------- floats, ints
\* A float64: +-Inf, or sign * mant * 10^exp.
Float(inf, sign, mant, exp) == [inf |-> inf, sign |-> sign, mant |-> mant, exp |-> exp]
FloatZero == Float(FALSE, 1, 0, 0)

\* json.Number.Float64, i.e. strconv.ParseFloat(string(n), 64): "" is a
\* syntax error with value 0; a literal beyond the float64 range is a range
\* error with value +-Inf.
Float64(n) ==
    CASE n.empty -> [val |-> FloatZero, err |-> TRUE]
      [] n.mant # 0 /\ n.exp > MaxFloatExp ->
           [val |-> Float(TRUE, n.sign, 0, 0), err |-> TRUE]
      [] OTHER -> [val |-> Float(FALSE, n.sign, n.mant, n.exp), err |-> FALSE]

RECURSIVE Pow10(_)
Pow10(e) == IF e = 0 THEN 1 ELSE 10 * Pow10(e - 1)

\* A faulty TruncDiv: the quotient is rounded down.
FloorDiv(a, b) == a \div b

\* Division truncated toward zero.
TruncDiv(a, b) == IF a >= 0 THEN a \div b ELSE -((-a) \div b)

IntCell(k, v) == [k |-> k, v |-> v]

\* int(f / rate).  The quotient truncates toward zero; when it is outside
\* int the result is implementation-dependent: amd64 gives the least int64
\* whatever the sign, arm64 saturates.  (The literals of the model have the
\* exponents 0, 30 and 400.)
IntOfQuotient(f, rate, arch) ==
    IF f.inf \/ (f.mant # 0 /\ f.exp > MaxIntExp)
    THEN IF arch = "amd64" \/ f.sign < 0
         THEN IntCell("minint64", 0)
         ELSE IntCell("maxint64", 0)
    ELSE IntCell("int", TruncDiv(f.sign * f.mant * Pow10(f.exp), rate))

\* SetFloatWithFormat(f / den, format): the cell keeps the float and its
\* number format; den = 1 for a float stored as it is.
FloatCell(f, den, format) == [num |-> f, den |-> den, format |-> format]

\* strconv.Itoa
Itoa(n) == ToString(n)

\* --------------------------------------------------------- cluster-name file
\* The file is what os.Open finds: nothing (exists = FALSE), or lines, each
\* a sequence of comma-separated fields.  BareQuoteField is a field with a
\* quote inside unquoted text, which encoding/csv rejects (ErrBareQuote).
BareQuoteField == "Eve\"s"

File(exists, lines) == [exists |-> exists, lines |-> lines]
NoFile == File(FALSE, <<>>)

FileLines ==
    { <<"Alice", "addr1">>, <<"Bob", "addr1">>, <<"solo">>,
      <<"Dave", "addr2", "x">>, <<BareQuoteField, "addr2">> }

ClusterFiles(n) == {NoFile} \cup { File(TRUE, ls) : ls \in SeqsUpTo(FileLines, n) }

\* m[k] = v as Go's map assignment: the key is added or overwritten.
MapPut(m, k, v) == [x \in DOMAIN m \cup {k} |-> IF x = k THEN v ELSE m[x]]
EmptyMap == [x \in {} |-> ""]

LoadResult(e, m) == [err |-> e, clusterMap |-> m]

\* reader.Read of csv.NewReader(file) on line i.  FieldsPerRecord is 0 in a
\* new Reader: the first record sets it, and every later record with another
\* number of fields is ErrFieldCount.  want = 0: no record read yet.
CsvRead(line, want) ==
    CASE \E j \in 1..Len(line) : line[j] = BareQuoteField -> "bare quote"
      [] want # 0 /\ Len(line) # want -> "wrong number of fields"
      [] OTHER -> "nil"

\* The loop of readClusterNames from line i on.
RECURSIVE ReadLoop(_, _, _, _)
ReadLoop(lines, i, want, clusterMap) ==
    IF i > Len(lines)
    THEN LoadResult("nil", clusterMap)
    ELSE LET record == lines[i]
             e == CsvRead(record, want)
         IN  IF e # "nil"
             THEN LoadResult(e, EmptyMap)
             ELSE IF Len(record) < 2
                  THEN ReadLoop(lines, i + 1, Len(record), clusterMap)
                  ELSE ReadLoop(lines, i + 1, Len(record),
                                MapPut(clusterMap, record[2], record[1]))

readClusterNames(file) ==
    IF ~file.exists
    THEN LoadResult("no such file", EmptyMap)
    ELSE ReadLoop(file.lines, 1, 0, EmptyMap)

\* A faulty MapIndex: a missing key is shown as a dash.
MapIndexOrDash(m, k) == IF k \in DOMAIN m THEN m[k] ELSE "-"

\* clusterNames[key] as Go's map index: the zero value "" for a missing key.
MapIndex(m, k) == IF k \in DOMAIN m THEN m[k] ELSE ""

\* ---------------------------------------------------------- parseDateTime
\* A --start_datetime / --end_datetime argument: text that has the layout
\* "2006-01-02 15:04:05" or not, and the six numbers it holds.
DateTime(layout, Y, M, D, h, m, s) ==
    [layout |-> layout, Y |-> Y, M |-> M, D |-> D, h |-> h, m |-> m, s |-> s]

IsLeap(Y) == (Y % 4 = 0 /\ Y % 100 # 0) \/ Y % 400 = 0
DaysIn(Y, M) ==
    CASE M = 2 -> IF IsLeap(Y) THEN 29 ELSE 28
      [] M \in {4, 6, 9, 11} -> 30
      [] OTHER -> 31

\* Days from 1970-01-01 to Y-M-D.
DaysFromCivil(Y, M, D) ==
    LET y == IF M <= 2 THEN Y - 1 ELSE Y
        era == y \div 400
        yoe == y - era * 400
        doy == (153 * (IF M > 2 THEN M - 3 ELSE M + 9) + 2) \div 5 + D - 1
        doe == yoe * 365 + yoe \div 4 - yoe \div 100 + doy
    IN  era * 146097 + doe - 719468

\* The zone "Local" of the model is UTC+8.
LocalOffset == 8 * 3600

\* time.ParseInLocation(layout, dateTimeStr, local) and t.Unix().
parseDateTime(a) ==
    IF a.layout /\ a.M \in 1..12 /\ a.D \in 1..DaysIn(a.Y, a.M)
       /\ a.h \in 0..23 /\ a.m \in 0..59 /\ a.s \in 0..59
    THEN [err |-> FALSE,
          unix |-> DaysFromCivil(a.Y, a.M, a.D) * 86400
                   + a.h * 3600 + a.m * 60 + a.s - LocalOffset]
    ELSE [err |-> TRUE, unix |-> 0]

StartArgs ==
    { DateTime(TRUE, 2024, 5, 1, 0, 0, 0), DateTime(TRUE, 2024, 2, 30, 0, 0, 0) }
EndArgs ==
    { DateTime(TRUE, 2024, 4, 30, 23, 59, 59), DateTime(TRUE, 2024, 5, 1, 24, 0, 0),
      DateTime(FALSE, 0, 0, 0, 0, 0, 0) }

\* ------------------------------------------------------------- the sheet
\* The eleven titles of the header row (rank, label, address, cumulative
\* credits, cumulative share, daily credits, daily share, speed, speed
\* share, GPU count /3080, GPU count /4090).
header ==
    << "rank", "label", "address", "total puzzle credits", "total share",
       "daily credits", "daily share", "speed (M s/s)", "speed share",
       "GPUs/3080", "GPUs/4090" >>

HeaderRow == [kind |-> "header", cells |-> header, bold |-> TRUE]

\* The cells of the row of provers[i + 1] (i is the loop index, from 0).
DataCells(i, prover, clusterNames, arch) ==
    LET totalPuzzleCredits == Float64(prover.TotalPuzzleCredits).val
        dailyPuzzleCredits == Float64(prover.DailyPuzzleCredits).val
        networkSpeed == Float64(prover.NetworkSpeed).val
    IN  [rank |-> Itoa(i + 1),
         label |-> MapIndex(clusterNames, prover.Address),
         address |-> prover.Address,
         total |-> FloatCell(totalPuzzleCredits, 1, "0.00"),
         totalPct |-> prover.TotalPuzzleCreditsPercentage,
         daily |-> FloatCell(dailyPuzzleCredits, 1, "0.00"),
         dailyPct |-> prover.DailyPuzzleCreditsPercentage,
         speed |-> FloatCell(networkSpeed, MegaUnit, "0.00"),
         speedPct |-> prover.NetworkSpeedPercentage,
         gpu3080 |-> IntOfQuotient(networkSpeed, Gpu3080Rate, arch),
         gpu4090 |-> IntOfQuotient(networkSpeed, Gpu4090Rate, arch)]

DataRow(i, prover, clusterNames, arch) ==
    [kind |-> "data", cells |-> DataCells(i, prover, clusterNames, arch), bold |-> FALSE]

\* A faulty BuildSheet: the records are written last to first.
BuildSheetReversed(provers, clusterNames, arch) ==
    <<HeaderRow>> \o [k \in 1..Len(provers) |->
                        DataRow(k - 1, provers[Len(provers) + 1 - k], clusterNames, arch)]

\* A faulty BuildSheet: a record with a number that does not convert is
\* skipped.
Convertible(prover) ==
    /\ ~Float64(prover.TotalPuzzleCredits).err
    /\ ~Float64(prover.DailyPuzzleCredits).err
    /\ ~Float64(prover.NetworkSpeed).err
BuildSheetSkipUnconvertible(provers, clusterNames, arch) ==
    LET kept == SelectSeq(provers, Convertible)
    IN  <<HeaderRow>> \o [k \in 1..Len(kept) |->
                            DataRow(k - 1, kept[k], clusterNames, arch)]

\* The sheet after the header loop and the loop over provers.
BuildSheet(provers, clusterNames, arch) ==
    <<HeaderRow>> \o [k \in 1..Len(provers) |->
                        DataRow(k - 1, provers[k], clusterNames, arch)]

\* ------------------------------------------------------------ output file
\* time.Now(): the calendar day and the time of day.
Clock(day, tod) == [day |-> day, tod |-> tod]

\* A faulty FormatDate: the layout holds the time of day too.
FormatDateTime(now) == <<"date", now.day, now.tod>>

\* time.Now().Format("2006-01-02")
FormatDate(now) == <<"date", now.day>>

\* fmt.Sprintf("aleo<...>-%s.xlsx", today)
outputFileName(now) == <<"aleo-stats-", FormatDate(now), ".xlsx">>

\* A file on disk: complete (the whole workbook was written) or not.
Xlsx(complete, rows) == [complete |-> complete, rows |-> rows]

\* ------------------------------------------------------------------ state
VARIABLES
    startDateTime, endDateTime, apiURL,  \* the flags of the command line
    pc,            \* the statement of the Action the run is at
    startTime, endTime,
    requests,      \* the POST payloads sent so far in this run
    response,      \* what client.Do returned
    provers,
    labelFd,       \* the cluster-name file: "unopened", "open failed", "closed"
    clusterFile,   \* what the cluster-name file held when it was read
    clusterNames,
    sheet,         \* the rows of Sheet1; <<>> before the sheet exists
    err,           \* the error the Action returned
    trace,         \* the stages this run executed, with their outcome
    created,       \* the output files this run created
    fs,            \* the output files on disk
    clock,         \* the local time
    run,           \* which invocation of the program this is
    runLog         \* per successful run: when, which file, its rows, the files on disk

args == <<startDateTime, endDateTime, apiURL>>
runVars ==
    <<pc, startTime, endTime, requests, response, provers, labelFd, clusterFile,
      clusterNames, sheet, err, trace, created>>
vars == <<args, runVars, fs, clock, run, runLog>>

Err(msg, cause) == [msg |-> msg, cause |-> cause]
NoErr == Err("nil", "nil")

Stage(stage, ok) == [stage |-> stage, ok |-> ok]

\* A faulty StageAfter: the cluster names are read before the fetch.
StageAfterLabelsFirst(stage) ==
    CASE stage = "parseStart" -> "parseEnd"
      [] stage = "parseEnd" -> "readClusterNames"
      [] stage = "readClusterNames" -> "fetch"
      [] stage = "fetch" -> "build"
      [] stage = "build" -> "save"
      [] stage = "save" -> "exit"

\* The order of the statements of the Action.
StageAfter(stage) ==
    CASE stage = "parseStart" -> "parseEnd"
      [] stage = "parseEnd" -> "fetch"
      [] stage = "fetch" -> "readClusterNames"
      [] stage = "readClusterNames" -> "build"
      [] stage = "build" -> "save"
      [] stage = "save" -> "exit"

\* The state of a process that has just started.
Fresh ==
    [pc |-> "parseStart", startTime |-> 0, endTime |-> 0, requests |-> <<>>,
     response |-> NoResponse, provers |-> <<>>, labelFd |-> "unopened",
     clusterFile |-> NoFile, clusterNames |-> EmptyMap, sheet |-> <<>>,
     err |-> NoErr, trace |-> <<>>, created |-> {}]

Init ==
    /\ startDateTime \in StartArgs
    /\ endDateTime \in EndArgs
    /\ apiURL \in {"http://localhost:8088/api/v1/provers/prover_rank_list", "::bad url"}
    /\ pc = Fresh.pc
    /\ startTime = Fresh.startTime
    /\ endTime = Fresh.endTime
    /\ requests = Fresh.requests
    /\ response = Fresh.response
    /\ provers = Fresh.provers
    /\ labelFd = Fresh.labelFd
    /\ clusterFile = Fresh.clusterFile
    /\ clusterNames = Fresh.clusterNames
    /\ sheet = Fresh.sheet
    /\ err = Fresh.err
    /\ trace = Fresh.trace
    /\ created = Fresh.created
    /\ fs = [x \in {} |-> Xlsx(FALSE, <<>>)]
    /\ clock = Clock(1, 0)
    /\ run = 1
    /\ runLog = <<>>

\* A faulty Return: the error is recorded and the Action goes on.
ReturnAndGoOn(stage, msg, cause) ==
    /\ pc' = StageAfter(stage)
    /\ err' = Err(msg, cause)
    /\ trace' = Append(trace, Stage(stage, FALSE))

\* return fmt.Errorf(msg, cause): the Action ends, app.Run returns the
\* error and log.Fatal exits.
Return(stage, msg, cause) ==
    /\ pc' = "exit"
    /\ err' = Err(msg, cause)
    /\ trace' = Append(trace, Stage(stage, FALSE))

Continue(stage) ==
    /\ pc' = StageAfter(stage)
    /\ err' = err
    /\ trace' = Append(trace, Stage(stage, TRUE))

\* startTime, err := parseDateTime(startDateTime)
ParseStart ==
    /\ pc = "parseStart"
    /\ LET r == parseDateTime(startDateTime)
       IN  IF r.err
           THEN /\ Return("parseStart", "error parsing start date and time", "parse")
                /\ UNCHANGED startTime
           ELSE /\ startTime' = r.unix
                /\ Continue("parseStart")
    /\ UNCHANGED <<args, endTime, requests, response, provers, labelFd, clusterFile,
                   clusterNames, sheet, created, fs, clock, run, runLog>>

\* endTime, err := parseDateTime(endDateTime)
ParseEnd ==
    /\ pc = "parseEnd"
    /\ LET r == parseDateTime(endDateTime)
       IN  IF r.err
           THEN /\ Return("parseEnd", "error parsing end date and time", "parse")
                /\ UNCHANGED endTime
           ELSE /\ endTime' = r.unix
                /\ Continue("parseEnd")
    /\ UNCHANGED <<args, startTime, requests, response, provers, labelFd, clusterFile,
                   clusterNames, sheet, created, fs, clock, run, runLog>>

\* http.NewRequest fails on a URL it cannot parse.
ValidURL(url) == url # "::bad url"

\* A faulty StatusAccepted: every 2xx status is taken.
StatusAcceptedAny2xx(status) == status \div 100 = 2

\* resp.StatusCode != http.StatusOK is an error.
StatusAccepted(status) == status = StatusOK

Payload(start, end) == [start_time |-> start, end_time |-> end]

\* fetchProverRankList(apiURL, startTime, endTime) when the server answers
\* resp: whether the request was sent, the error, the provers.
fetchProverRankList(url, resp) ==
    CASE ~ValidURL(url) -> [sent |-> FALSE, cause |-> "bad url", provers |-> <<>>]
      [] resp.kind = "neterr" -> [sent |-> TRUE, cause |-> "transport", provers |-> <<>>]
      [] ~StatusAccepted(resp.status) ->
           [sent |-> TRUE, cause |-> "status", provers |-> <<>>]
      [] resp.body.shape = "unreadable" ->
           [sent |-> TRUE, cause |-> "read", provers |-> <<>>]
      [] ~Unmarshal(resp.body).ok -> [sent |-> TRUE, cause |-> "decode", provers |-> <<>>]
      [] OTHER -> [sent |-> TRUE, cause |-> "nil", provers |-> Unmarshal(resp.body).v]

\* provers, err := fetchProverRankList(apiURL, startTime, endTime)
Fetch(answers) ==
    /\ pc = "fetch"
    /\ \E resp \in answers :
         LET r == fetchProverRankList(apiURL, resp)
         IN  /\ requests' = IF r.sent
                            THEN Append(requests, Payload(startTime, endTime))
                            ELSE requests
             /\ response' = IF r.sent THEN resp ELSE response
             /\ IF r.cause # "nil"
                THEN /\ Return("fetch", "error fetching prover rank list", r.cause)
                     /\ UNCHANGED provers
                ELSE /\ provers' = r.provers
                     /\ Continue("fetch")
    /\ UNCHANGED <<args, startTime, endTime, labelFd, clusterFile, clusterNames,
                   sheet, created, fs, clock, run, runLog>>

\* clusterNames, err := readClusterNames(clusterFilePath)
ReadClusterNames(files) ==
    /\ pc = "readClusterNames"
    /\ \E file \in files :
         LET r == readClusterNames(file)
         IN  /\ clusterFile' = file
             /\ labelFd' = IF file.exists THEN "closed" ELSE "open failed"
             /\ IF r.err # "nil"
                THEN /\ Return("readClusterNames", "error reading cluster names", r.err)
                     /\ UNCHANGED clusterNames
                ELSE /\ clusterNames' = r.clusterMap
                     /\ Continue("readClusterNames")
    /\ UNCHANGED <<args, startTime, endTime, requests, response, provers, sheet,
                   created, fs, clock, run, runLog>>

\* file := xlsx.NewFile() ... the loop over provers: the workbook is built
\* in memory.
Build ==
    /\ pc = "build"
    /\ \E arch \in {"amd64", "arm64"} :
         sheet' = BuildSheet(provers, clusterNames, arch)
    /\ Continue("build")
    /\ UNCHANGED <<args, startTime, endTime, requests, response, provers, labelFd,
                   clusterFile, clusterNames, created, fs, clock, run, runLog>>

\* file.Save(outputFileName): os.Create (which truncates a file that is
\* there), then the workbook is written and the file closed.  The save
\* succeeds, or fails before the file is created, or fails after.
Save ==
    /\ pc = "save"
    /\ LET today == clock
           name == outputFileName(today)
       IN  \E outcome \in {"saved", "create failed", "write failed"} :
             CASE outcome = "saved" ->
                    /\ fs' = MapPut(fs, name, Xlsx(TRUE, sheet))
                    /\ created' = created \cup {name}
                    /\ runLog' = Append(runLog, [at |-> today, name |-> name,
                                                 rows |-> sheet,
                                                 files |-> DOMAIN fs'])
                    /\ Continue("save")
               [] outcome = "create failed" ->
                    /\ Return("save", "error saving file", outcome)
                    /\ UNCHANGED <<fs, created, runLog>>
               [] outcome = "write failed" ->
                    /\ fs' = MapPut(fs, name, Xlsx(FALSE, <<>>))
                    /\ created' = created \cup {name}
                    /\ Return("save", "error saving file", outcome)
                    /\ UNCHANGED runLog
    /\ UNCHANGED <<args, startTime, endTime, requests, response, provers, labelFd,
                   clusterFile, clusterNames, sheet, clock, run>>

\* The program is started again, later, with the same flags.
Later(c, d) == d.day > c.day \/ (d.day = c.day /\ d.tod > c.tod)

Rerun ==
    /\ pc = "exit"
    /\ run < MaxRuns
    /\ run' = run + 1
    /\ \E d \in 1..MaxDay, t \in 0..MaxTod :
         /\ Later(clock, Clock(d, t))
         /\ clock' = Clock(d, t)
    /\ pc' = Fresh.pc
    /\ startTime' = Fresh.startTime
    /\ endTime' = Fresh.endTime
    /\ requests' = Fresh.requests
    /\ response' = Fresh.response
    /\ provers' = Fresh.provers
    /\ labelFd' = Fresh.labelFd
    /\ clusterFile' = Fresh.clusterFile
    /\ clusterNames' = Fresh.clusterNames
    /\ sheet' = Fresh.sheet
    /\ err' = Fresh.err
    /\ trace' = Fresh.trace
    /\ created' = Fresh.created
    /\ UNCHANGED <<args, fs, runLog>>

Next ==
    \/ ParseStart
    \/ ParseEnd
    \/ Fetch(Responses(MaxProvers))
    \/ ReadClusterNames(ClusterFiles(MaxLines))
    \/ Build
    \/ Save

Spec == Init /\ [][Next]_vars

\* What the server and the cluster-name file give in SpecTwice: one record
\* or another, a refusal; a file of one line or no file.
TwiceResponses ==
    { Response("http", StatusOK, Body("object", "array", <<e>>)) :
        e \in { JObject(JText("addr1"), JNumText(1, 100, 0), JText("10%"),
                        JNumText(1, 7, 0), JText("5%"), JNumText(1, 30000, 0),
                        JText("1%")),
                JNullElem } }
    \cup { Response("http", 500, Body("invalid", "absent", <<>>)) }
TwiceFiles == { NoFile, File(TRUE, << <<"Alice", "addr1">> >>) }

\* Runs of the program one after the other, the clock moving on in between.
NextTwice ==
    \/ ParseStart
    \/ ParseEnd
    \/ Fetch(TwiceResponses)
    \/ ReadClusterNames(TwiceFiles)
    \/ Build
    \/ Save
    \/ Rerun

SpecTwice == Init /\ [][NextTwice]_vars

\* ================================================================ claims
Succeeded == pc = "exit" /\ err = NoErr
Built == sheet # <<>>

\* The elements of the "data" array of the response, as the server sent them.
RawItems ==
    IF response.body.shape = "object" /\ response.body.data = "array"
    THEN response.body.items
    ELSE <<>>

\* The text of a JSON string, "" for anything else.
RawText(j) == IF j.t = "string" THEN j.s ELSE ""

\* ------------------------------------------------------------------- C1
\* C1: whenever the HTTP response status is not 200, the fetch has failed
\* with the status error, the run is over, and this run has neither built a
\* sheet nor created or written any output file.
C1_Non200AbortsBeforeAnyFile ==
    (response.kind = "http" /\ response.status # StatusOK) =>
        /\ pc = "exit"
        /\ err = Err("error fetching prover rank list", "status")
        /\ provers = <<>>
        /\ ~Built
        /\ created = {}
        /\ DOMAIN fs = {}

C1_Witness ==
    /\ response.kind = "http"
    /\ response.status = 201
    /\ response.body = Body("object", "array", <<JNullElem>>)
    /\ pc = "exit"

\* ------------------------------------------------------------------- C2
\* C2: once the sheet is built it has the header row and then exactly one
\* data row per record of the response, the i-th data row carrying the
\* address of the i-th record and the rank i, labelled or not; a successful
\* run has written exactly these rows to the output file.
C2_RowsFollowResponseOrder ==
    Built =>
        /\ Len(sheet) = Len(RawItems) + 1
        /\ sheet[1] = HeaderRow
        /\ \A i \in 1..Len(RawItems) :
             /\ sheet[i + 1].kind = "data"
             /\ sheet[i + 1].cells.address = RawText(RawItems[i].Address)
             /\ sheet[i + 1].cells.rank = ToString(i)
        /\ Succeeded => fs[outputFileName(clock)] = Xlsx(TRUE, sheet)

C2_Witness ==
    /\ Succeeded
    /\ Len(RawItems) = 2
    /\ sheet[2].cells.address = "addr3"
    /\ sheet[2].cells.label = ""
    /\ sheet[3].cells.address = "addr1"
    /\ sheet[3].cells.label = "Alice"
    /\ sheet[3].cells.rank = "2"

\* ------------------------------------------------------------------- C3
\* C3 as claimed: no HTTP POST is issued before the label file has been
\* opened, read and closed, and a run whose label file cannot be read has
\* made no HTTP request.
C3_LabelsLoadedBeforePost ==
    /\ requests # <<>> => labelFd = "closed"
    /\ err.msg = "error reading cluster names" => requests = <<>>

\* C3 as amended: the label file is opened, read and closed after the fetch
\* and before the sheet is built: it is touched only once a POST has been
\* answered with status 200 and decoded; a run whose fetch fails never opens
\* it; a run whose label file cannot be read has made exactly one HTTP
\* request and builds no sheet.
C3_LabelsLoadedAfterFetch ==
    /\ labelFd # "unopened" =>
         /\ Len(requests) = 1
         /\ response.kind = "http" /\ response.status = StatusOK
         /\ err.msg # "error fetching prover rank list"
    /\ err.msg = "error fetching prover rank list" => labelFd = "unopened"
    /\ err.msg = "error reading cluster names" => Len(requests) = 1 /\ ~Built
    /\ Built => labelFd = "closed"

C3_Witness ==
    /\ pc = "exit"
    /\ err = Err("error reading cluster names", "no such file")
    /\ labelFd = "open failed"
    /\ Len(requests) = 1

\* ------------------------------------------------------------------- C4
\* The stages of a run, in the order of the Action.
StageOrder == <<"parseStart", "parseEnd", "fetch", "readClusterNames", "build", "save">>

\* The stages run in order, a failed stage is the last one executed and ends
\* the run with an error; each stage's effect is there only when every
\* earlier stage succeeded; a parse failure sends no request and leaves no
\* file.
FirstFailureEndsRun ==
    /\ Len(trace) <= Len(StageOrder)
    /\ \A i \in 1..Len(trace) :
         /\ trace[i].stage = StageOrder[i]
         /\ i < Len(trace) => trace[i].ok
    /\ (Len(trace) > 0 /\ ~trace[Len(trace)].ok) => (pc = "exit" /\ err # NoErr)
    /\ err # NoErr => (pc = "exit" /\ Len(trace) > 0 /\ ~trace[Len(trace)].ok)
    /\ requests # <<>> => Len(trace) >= 3 /\ trace[1].ok /\ trace[2].ok
    /\ labelFd # "unopened" => Len(trace) >= 4 /\ trace[3].ok
    /\ Built => Len(trace) >= 5 /\ trace[4].ok
    /\ DOMAIN fs # {} => Len(trace) = 6
    /\ err.cause = "parse" => requests = <<>> /\ DOMAIN fs = {}
    /\ Succeeded <=> (Len(trace) = 6 /\ trace[6].ok)

WellFormed(file) ==
    /\ file.exists
    /\ \A i \in 1..Len(file.lines) :
         \A j \in 1..Len(file.lines[i]) : file.lines[i][j] # BareQuoteField

\* The entries of the records of lines[1..n] that have two fields or more.
RECURSIVE EntriesOf(_, _)
EntriesOf(lines, n) ==
    IF n = 0
    THEN EmptyMap
    ELSE IF Len(lines[n]) < 2
         THEN EntriesOf(lines, n - 1)
         ELSE MapPut(EntriesOf(lines, n - 1), lines[n][2], lines[n][1])

\* C5 as claimed: reading a label file of well-formed records never fails,
\* wherever its records of fewer than two fields are, and the map holds
\* exactly the entries of the records of two fields or more.
C5_ShortRecordsSkippedAnywhere ==
    (labelFd = "closed" /\ WellFormed(clusterFile)) =>
        /\ err.msg # "error reading cluster names"
        /\ clusterNames = EntriesOf(clusterFile.lines, Len(clusterFile.lines))

\* ------------------------------------------------------------------- C6
\* C6 as claimed: a status-200 body that is not a JSON object with an array
\* "data" is a decode error, and a header-only sheet never comes from such a
\* body.
C6_UnexpectedShapeIsError ==
    (response.kind = "http" /\ response.status = StatusOK
     /\ response.body.shape # "unreadable"
     /\ ~(response.body.shape = "object" /\ response.body.data = "array")) =>
        /\ err = Err("error fetching prover rank list", "decode")
        /\ ~Built

\* An element of data the decoder rejects: not an object or null, or a
\* string field that is not a string, or a number field that is neither a
\* number nor a string holding one.
RejectedText(j) == j.t \notin {"absent", "null", "string"}
RejectedNumber(j) ==
    /\ j.t \notin {"absent", "null", "number"}
    /\ ~(j.t = "string" /\ j.isnum)
RejectedElem(e) ==
    \/ e.t \notin {"object", "null"}
    \/ /\ e.t = "object"
       /\ \/ RejectedText(e.Address)
          \/ RejectedText(e.TotalPuzzleCreditsPercentage)
          \/ RejectedText(e.DailyPuzzleCreditsPercentage)
          \/ RejectedText(e.NetworkSpeedPercentage)
          \/ RejectedNumber(e.TotalPuzzleCredits)
          \/ RejectedNumber(e.DailyPuzzleCredits)
          \/ RejectedNumber(e.NetworkSpeed)

\* C6 as amended: a status-200 response fails with a decode error exactly
\* when the body is not valid JSON, or its top-level value is an array, or
\* "data" is present with a type other than array or null, or an element of
\* "data" cannot be decoded; a body that is JSON null, or an object with no
\* "data" or a null "data" (such as {} ), decodes to no records without
\* error, and the run goes on to a header-only sheet.
C6_DecodeErrorOnlyOnTypeMismatch ==
    (response.kind = "http" /\ response.status = StatusOK) =>
        LET b == response.body
            lenient == b.shape = "null"
                        \/ (b.shape = "object" /\ b.data \in {"absent", "null"})
            broken == \/ b.shape \in {"invalid", "array"}
                      \/ b.shape = "object" /\ b.data \notin {"absent", "null", "array"}
                      \/ \E i \in 1..Len(RawItems) : RejectedElem(RawItems[i])
        IN  /\ broken <=> err = Err("error fetching prover rank list", "decode")
            /\ lenient => /\ err.msg # "error fetching prover rank list"
                          /\ provers = <<>>
                          /\ Built => sheet = <<HeaderRow>>
                          /\ Succeeded => fs[outputFileName(clock)].rows = <<HeaderRow>>

C6_Witness ==
    /\ response = Response("http", StatusOK, Body("object", "absent", <<>>))
    /\ Succeeded
    /\ fs[outputFileName(clock)] = Xlsx(TRUE, <<HeaderRow>>)

\* ------------------------------------------------------------------- C7
\* C7: every data row whose address is not a key of the label map has the
\* empty string as its label, every data row whose address is a key has the
\* mapped value, and the lookup never ends the run: once the labels are
\* loaded the sheet is built with a row for every record.
C7_MissingLabelIsEmptyString ==
    /\ Built =>
         /\ Len(sheet) = Len(provers) + 1
         /\ \A k \in 2..Len(sheet) :
              LET c == sheet[k].cells
              IN  IF c.address \in DOMAIN clusterNames
                  THEN c.label = clusterNames[c.address]
                  ELSE c.label = ""
    /\ \A i \in 1..Len(trace) : trace[i].stage = "build" => trace[i].ok
    /\ (Len(trace) >= 4 /\ trace[4].ok) => pc \in {"build", "save", "exit"}
    /\ (pc = "exit" /\ Len(trace) >= 4 /\ trace[4].ok) => Built

C7_Witness ==
    /\ Succeeded
    /\ DOMAIN clusterNames = {"addr1"}
    /\ Len(sheet) = 3
    /\ sheet[2].cells.address = "addr2" /\ sheet[2].cells.label = ""
    /\ sheet[3].cells.address = "addr1" /\ sheet[3].cells.label = "Bob"

\* ------------------------------------------------------------------- C8
\* The number a JSON value gives a json.Number field, as the server sent it:
\* sign * mant * 10^exp, and 0 when there is none.
RawNumber(j) ==
    IF j.t = "number" \/ (j.t = "string" /\ j.isnum)
    THEN [sign |-> j.sign, mant |-> j.mant, exp |-> j.exp]
    ELSE [sign |-> 1, mant |-> 0, exp |-> 0]

\* q is a / rate truncated toward zero.
IsTruncatedQuotient(q, a, rate) ==
    LET absq == IF q < 0 THEN -q ELSE q
        absa == IF a < 0 THEN -a ELSE a
    IN  /\ absq * rate <= absa
        /\ absa < (absq + 1) * rate
        /\ q > 0 => a > 0
        /\ q < 0 => a < 0

\* The cell holds raw / rate truncated toward zero.  (A speed with an
\* exponent is too large for the quotient to be written out here: the cell
\* must at least be an exact nonzero integer of the speed's sign.)
HoldsQuotient(cell, raw, rate) ==
    /\ cell.k = "int"
    /\ raw.exp = 0 => IsTruncatedQuotient(cell.v, raw.sign * raw.mant, rate)
    /\ (raw.exp > 0 /\ raw.mant # 0) =>
         /\ cell.v # 0
         /\ cell.v > 0 <=> raw.sign > 0

RawSpeed(k) == RawNumber(RawItems[k - 1].NetworkSpeed)

\* The hardware counts of data row k are the quotients of its raw speed.
GpuCountsOf(k) ==
    LET raw == RawSpeed(k)
        c == sheet[k].cells
    IN    /\ HoldsQuotient(c.gpu3080, raw, 15000)
          /\ HoldsQuotient(c.gpu4090, raw, 43000)
          /\ (raw.sign = 1 /\ raw.mant = 30000 /\ raw.exp = 0) =>
               (c.gpu3080.v = 2 /\ c.gpu4090.v = 0)
          /\ raw.sign < 0 => (c.gpu3080.v <= 0 /\ c.gpu4090.v <= 0)

\* The speed is a finite float64 and its quotients are inside int.
SpeedInsideInt(raw) == raw.mant = 0 \/ raw.exp = 0

C9_OneFilePerDay ==
    /\ \A i, j \in 1..Len(runLog) :
         i < j =>
           /\ runLog[i].at.day = runLog[j].at.day =>
                /\ runLog[i].name = runLog[j].name
                /\ runLog[i].files = runLog[j].files
           /\ runLog[i].at.day # runLog[j].at.day => runLog[i].name # runLog[j].name
    /\ Cardinality({ runLog[i].name : i \in 1..Len(runLog) })
         = Cardinality({ runLog[i].at.day : i \in 1..Len(runLog) })
    /\ Succeeded =>
         /\ runLog # <<>>
         /\ runLog[Len(runLog)].rows = sheet
         /\ fs[runLog[Len(runLog)].name] = Xlsx(TRUE, sheet)

C9_Witness ==
    /\ Succeeded
    /\ Len(runLog) = 2
    /\ runLog[1].at.day = runLog[2].at.day
    /\ runLog[1].at.tod # runLog[2].at.tod
    /\ runLog[1].rows # runLog[2].rows
    /\ DOMAIN fs = {runLog[1].name}
    /\ fs[runLog[1].name].rows = runLog[2].rows

\* ------------------------------------------------------------------ C10
\* Float64 fails on n: n is "" (the key was absent or null), or a literal
\* beyond the range of float64.
OutOfFloatRange(n) == ~n.empty /\ n.mant # 0 /\ n.exp > 308
Unconvertible(n) == n.empty \/ OutOfFloatRange(n)

\* Once decoded, no record ends the run: the build succeeds and there is a
\* row for every record.
EveryRecordExported ==
    /\ \A i \in 1..Len(trace) : trace[i].stage = "build" => trace[i].ok
    /\ (pc = "exit" /\ Len(trace) >= 4 /\ trace[4].ok) => Built
    /\ Built => Len(sheet) = Len(provers) + 1
    /\ err.msg \in {"nil", "error parsing start date and time",
                    "error parsing end date and time",
                    "error fetching prover rank list",
                    "error reading cluster names", "error saving file"}

\* C10 as claimed: once decoded, no record ends the run, and a number that
\* is absent or cannot be converted is exported as 0 in its column (and as
\* 0 in both hardware counts when it is the speed).
C10_UnconvertibleNumberIsZero ==
    /\ EveryRecordExported
    /\ Built =>
         \A k \in 2..Len(sheet) :
           LET p == provers[k - 1]
               c == sheet[k].cells
           IN  /\ Unconvertible(p.TotalPuzzleCredits) => c.total.num = FloatZero
               /\ Unconvertible(p.DailyPuzzleCredits) => c.daily.num = FloatZero
               /\ Unconvertible(p.NetworkSpeed) =>
                    /\ c.speed.num = FloatZero
                    /\ c.gpu3080 = IntCell("int", 0)
                    /\ c.gpu4090 = IntCell("int", 0)

\* C10 as amended: once decoded, no record ends the run and every record is
\* exported.  A number that is absent (or null) is exported as 0 in its
\* column, and as 0 in both hardware counts when it is the speed; a number
\* beyond the range of float64 has its conversion error discarded as well
\* but is exported as +Inf or -Inf (the hardware counts of such a speed are
\* implementation-dependent).
C10_AbsentNumberIsZero ==
    /\ EveryRecordExported
    /\ Built =>
         \A k \in 2..Len(sheet) :
           LET p == provers[k - 1]
               c == sheet[k].cells
               Inf(n) == Float(TRUE, n.sign, 0, 0)
           IN  /\ p.TotalPuzzleCredits.empty => c.total.num = FloatZero
               /\ p.DailyPuzzleCredits.empty => c.daily.num = FloatZero
               /\ p.NetworkSpeed.empty =>
                    /\ c.speed.num = FloatZero
                    /\ c.gpu3080 = IntCell("int", 0)
                    /\ c.gpu4090 = IntCell("int", 0)
               /\ OutOfFloatRange(p.TotalPuzzleCredits) =>
                    c.total.num = Inf(p.TotalPuzzleCredits)
               /\ OutOfFloatRange(p.DailyPuzzleCredits) =>
                    c.daily.num = Inf(p.DailyPuzzleCredits)
               /\ OutOfFloatRange(p.NetworkSpeed) => c.speed.num = Inf(p.NetworkSpeed)

C10_Witness ==
    /\ Succeeded
    /\ Len(sheet) = 3
    /\ provers[1].TotalPuzzleCredits.empty /\ provers[1].NetworkSpeed.empty
    /\ sheet[2].cells.total.num = FloatZero
    /\ sheet[2].cells.gpu3080 = IntCell("int", 0)
    /\ OutOfFloatRange(provers[2].NetworkSpeed)
    /\ sheet[3].cells.speed.num = Float(TRUE, 1, 0, 0)

====
